---- MODULE Spec2Model ----
(***************************************************************************)
(* Terraform execution engine (src/main.py): the /execute single-flight    *)
(* queue, the /validate five-stage pipeline with rollback-by-destroy, and  *)
(* the workspace lifecycle.                                                *)
(*                                                                         *)
(* Every handler is an asyncio coroutine on one event loop: the code       *)
(* between two suspending awaits is one atomic step.  The suspending       *)
(* awaits are the subprocess calls (execute_terraform_command) and the     *)
(* upload read inside create_terraform_workspace; cleanup_workspace has    *)
(* no await in it, so a finally block runs in the step of the command      *)
(* that ended the pipeline.  asyncio.create_task only schedules the        *)
(* drained run: its first step is a later step of the loop.                *)
(***************************************************************************)
EXTENDS Integers, Sequences, FiniteSets, TLC

\* Bounds of the model: the number of HTTP submissions to /execute, to
\* /validate, and to both together in a behaviour that uses both endpoints.
MaxExecute == 3
MaxValidate == 2
MaxRequests == 2

\* Bound of the uploads given to create_terraform_workspace: the number of
\* blocks in the uploaded configuration.
MaxBlocks == 2

VARIABLES
    current_execution,  \* main.py:24, the execution_id holding the slot
    terraform_queue,    \* main.py:22, the deque of waiting entries
    runs,               \* one record per handler invocation, indexed by its uuid4
    returned,           \* the invocation that ended in the latest step, if any
    upload,             \* the arguments of one create_terraform_workspace call
    main_tf             \* the file {workspace_dir}/main.tf that the call writes

vars == <<current_execution, terraform_queue, runs, returned, upload, main_tf>>

\* The injection of credentials into the configuration text is a function of
\* the upload alone: the queue and the pipelines leave these two alone.
NoUpload == [terraform_file |-> <<>>, variables |-> {}]
NotWritten == [written |-> FALSE, text |-> <<>>]

\* current_execution = None
NoExecution == 0

\* The `variables` form field of an HTTP submission: absent, the text of an
\* empty mapping, the text of a non-empty mapping, or text that is not JSON.
FormValues == {"None", "str_empty", "str_mapping", "str_malformed"}

\* What a terraform subprocess can do: exit 0 printing JSON, exit 0 printing
\* other text, exit non-zero, or fail to launch (create_subprocess_exec raises).
CommandOutcomes == {"exit0_json", "exit0_text", "nonzero", "nolaunch"}

\* A subprocess whose cwd does not exist cannot be launched.
CommandOutcomesIn(dir) == IF dir THEN CommandOutcomes ELSE {"nolaunch"}

\* What create_terraform_workspace can do: succeed, fail in os.makedirs, or
\* raise after the directory exists (read, decode, injection, write).
CreateOutcomes == {"ok", "makedirs_fault", "write_fault"}

ExecuteStages == <<"init", "plan", "apply">>
ValidateStages == <<"init", "validate", "plan", "apply", "destroy">>

TerraformCommands == {"init", "validate", "plan", "apply", "destroy"}

\* Python truthiness of a `variables` value: None and {} are falsy.
Truthy(v) == v \notin {"None", "dict_empty"}

\* json.loads: parses text, raises JSONDecodeError on malformed text and
\* TypeError on a value that is not text.
json_loads(v) ==
    CASE v = "str_empty" -> "dict_empty"
      [] v = "str_mapping" -> "dict_mapping"
      [] v = "str_malformed" -> "JSONDecodeError"
      [] OTHER -> "TypeError"

\* parsed_variables = json.loads(variables) if variables else None
ParseVariables(v) == IF Truthy(v) THEN json_loads(v) ELSE "None"

\* execute_terraform_command: the result dictionary for a subprocess outcome.
\* The launch-failure dictionary has no "output" key.
execute_terraform_command(o) ==
    CASE o = "exit0_json" -> [success |-> TRUE, output |-> "json", error |-> "None"]
      [] o = "exit0_text" -> [success |-> TRUE, output |-> "text", error |-> "None"]
      [] o = "nonzero" -> [success |-> FALSE, output |-> "text", error |-> "stderr"]
      [] o = "nolaunch" -> [success |-> FALSE, output |-> "missing", error |-> "str(e)"]

\* cleanup_workspace: shutil.rmtree, every exception swallowed.  rmtree raises
\* when the directory is absent or when the filesystem refuses (fs_ok false).
cleanup_workspace(dir, fs_ok) ==
    IF dir /\ fs_ok
    THEN [dir |-> FALSE, teardown |-> "removed"]
    ELSE [dir |-> dir, teardown |-> "swallowed"]

\* A handler invocation before its first step.
NewRun(endpoint, via, origin, variables, pc) ==
    [endpoint |-> endpoint, via |-> via, origin |-> origin,
     variables |-> variables, pc |-> pc, commands |-> <<>>,
     response |-> "none", position |-> 0, dir |-> FALSE,
     teardown |-> "none", first_failed |-> "none",
     validate_output |-> "none", rollback |-> "none"]

\* What the model keeps of an invocation that has ended: who it was and how it
\* ended ("queued", "rejected", "faulted" before the slot, or "ran").
Summary(r, outcome) ==
    [NewRun(r.endpoint, r.via, r.origin, "dropped", "done")
        EXCEPT !.response = outcome]

\* No invocation ended in the latest step.
NoReturn == [id |-> 0] @@ NewRun("none", "none", 0, "none", "none")

\* Invocation i of rs ends: its full record is what the step returned.
Returns(i, rs) == [id |-> i] @@ [rs[i] EXCEPT !.pc = "done"]

\* The number of HTTP submissions to an endpoint so far.
HttpCount(endpoint) ==
    Cardinality({i \in DOMAIN runs :
                    runs[i].via = "http" /\ runs[i].endpoint = endpoint})

\* The bounds allow one more submission to `endpoint` (`other` is the other one).
WithinBounds(endpoint, other, max) ==
    /\ HttpCount(endpoint) < max
    /\ HttpCount(other) > 0 => HttpCount(endpoint) + HttpCount(other) < MaxRequests

Init ==
    /\ current_execution = NoExecution
    /\ terraform_queue = <<>>
    /\ runs = <<>>
    /\ returned = NoReturn
    /\ upload = NoUpload
    /\ main_tf = NotWritten


(***************************************************************************)
(* /execute                                                                *)
(***************************************************************************)

\* Mutant: the check of the marker is lost.
SlotBusy_never == FALSE

\* `if current_execution:` under queue_lock
SlotBusy == current_execution # NoExecution

\* Mutant: the position is counted from zero.
QueuePosition_zero_based(q) == Len(q) - 1

\* "position": len(terraform_queue), read after the append
QueuePosition(q) == Len(q)

\* An invocation ends before the pipeline, with response resp; outcome is
\* what the model keeps of it.
EndsEarly(i, rs, resp, outcome) ==
    /\ returned' = Returns(i, [rs EXCEPT ![i].response = resp])
    /\ runs' = [rs EXCEPT ![i] = Summary(@, outcome)]

\* The head of execute_terraform up to the end of the first critical section,
\* for invocation i of rs: parse the variables, then either queue the request
\* or take the slot.  Called by an HTTP submission and by a drained task.
execute_entry(i, rs) ==
    LET parsed == ParseVariables(rs[i].variables) IN
    IF parsed = "JSONDecodeError"
    THEN \* except json.JSONDecodeError: HTTPException(400)
         /\ EndsEarly(i, rs, "http400", "rejected")
         /\ UNCHANGED <<current_execution, terraform_queue>>
    ELSE IF parsed = "TypeError"
    THEN \* no handler catches it: the invocation ends with the fault
         /\ EndsEarly(i, rs, "unhandled_TypeError", "faulted")
         /\ UNCHANGED <<current_execution, terraform_queue>>
    ELSE IF SlotBusy
    THEN /\ terraform_queue' =
                Append(terraform_queue,
                       [execution_id |-> i, terraform_file |-> rs[i].origin,
                        parsed_variables |-> parsed])
         /\ EndsEarly(i, [rs EXCEPT ![i].position = QueuePosition(terraform_queue')],
                      "queued", "queued")
         /\ UNCHANGED current_execution
    ELSE /\ current_execution' = i
         /\ runs' = [rs EXCEPT ![i].pc = "create",
                               ![i].variables = "dropped",
                               ![i].commands = <<"acquire">>]
         /\ returned' = NoReturn
         /\ UNCHANGED terraform_queue

\* The second critical section: clear the marker and, when the queue is not
\* empty, pop its head and schedule execute_terraform for it as a new task
\* (a new invocation, which draws its own uuid4 when it starts).
Release(rs) ==
    /\ current_execution' = NoExecution
    /\ IF terraform_queue # <<>>
       THEN /\ terraform_queue' = Tail(terraform_queue)
            /\ runs' = Append(rs, NewRun("execute", "drained",
                                         Head(terraform_queue).terraform_file,
                                         Head(terraform_queue).parsed_variables,
                                         "scheduled"))
       ELSE /\ terraform_queue' = terraform_queue
            /\ runs' = rs

\* Mutant: teardown and release follow the try instead of sitting in a finally
\* block, so a fault leaves without them.
ExecuteFinally_skipped_on_fault(i, rs, fs_ok) ==
    LET c == cleanup_workspace(rs[i].dir, fs_ok)
        r1 == [rs EXCEPT ![i].dir = c.dir, ![i].teardown = c.teardown,
                         ![i].commands = @ \o <<"cleanup_workspace", "release">>]
    IN IF rs[i].response = "unhandled_fault"
       THEN /\ returned' = Returns(i, rs)
            /\ runs' = [rs EXCEPT ![i] = Summary(@, "ran")]
            /\ UNCHANGED <<current_execution, terraform_queue>>
       ELSE /\ returned' = Returns(i, r1)
            /\ Release([r1 EXCEPT ![i] = Summary(@, "ran")])

\* The finally block of execute_terraform: cleanup_workspace, then release;
\* after it the invocation ends with the response (or fault) of rs[i].
ExecuteFinally(i, rs, fs_ok) ==
    LET c == cleanup_workspace(rs[i].dir, fs_ok)
        r1 == [rs EXCEPT ![i].dir = c.dir, ![i].teardown = c.teardown,
                         ![i].commands = @ \o <<"cleanup_workspace", "release">>]
    IN /\ returned' = Returns(i, r1)
       /\ Release([r1 EXCEPT ![i] = Summary(@, "ran")])

\* POST /execute arrives with form field `variables` = v.
SubmitExecute(v) ==
    /\ WithinBounds("execute", "validate", MaxExecute)
    /\ LET i == Len(runs) + 1 IN
       execute_entry(i, Append(runs, NewRun("execute", "http", i, v, "start")))

\* The task created by asyncio.create_task runs its first step.
StartDrained(i) ==
    /\ runs[i].endpoint = "execute"
    /\ runs[i].pc = "scheduled"
    /\ execute_entry(i, runs)

\* create_terraform_workspace inside the inner try of execute_terraform.
ExecuteCreate(i, o, fs_ok) ==
    /\ runs[i].endpoint = "execute"
    /\ runs[i].pc = "create"
    /\ IF o = "ok"
       THEN /\ runs' = [runs EXCEPT ![i].dir = TRUE, ![i].pc = "init",
                                    ![i].commands = Append(@, "makedirs")]
            /\ returned' = NoReturn
            /\ UNCHANGED <<current_execution, terraform_queue>>
       ELSE \* the exception leaves through the finally block, uncaught
            ExecuteFinally(i,
                [runs EXCEPT ![i].dir = (o = "write_fault"),
                             ![i].commands =
                                 IF o = "write_fault" THEN Append(@, "makedirs") ELSE @,
                             ![i].response = "unhandled_fault"],
                fs_ok)

\* Mutant: the check of plan_result["success"] is lost.
ExecuteBranch_plan_unchecked(s, result) ==
    IF s = "init"
    THEN IF result.success THEN "next" ELSE "success_false"
    ELSE IF s = "plan"
    THEN "next"
    ELSE IF result.output = "missing" THEN "unhandled_fault"
         ELSE IF result.success THEN "success_true" ELSE "success_false"

\* What execute_terraform does with the result of the command of stage s:
\* the response it returns, or "next" when it goes on to the following stage.
ExecuteBranch(s, result) ==
    IF s \in {"init", "plan"}
    THEN IF result.success THEN "next" ELSE "success_false"
    ELSE \* the return dictionary reads apply_result["output"]
         IF result.output = "missing" THEN "unhandled_fault"
         ELSE IF result.success THEN "success_true" ELSE "success_false"

NextExecuteStage(s) == IF s = "init" THEN "plan" ELSE "apply"

\* One terraform command of the /execute pipeline completes with outcome o.
ExecuteStage(i, o, fs_ok) ==
    /\ runs[i].endpoint = "execute"
    /\ runs[i].pc \in {"init", "plan", "apply"}
    /\ LET s == runs[i].pc
           result == execute_terraform_command(o)
           b == ExecuteBranch(s, result)
           r1 == [runs EXCEPT ![i].commands = Append(@, s),
                              ![i].first_failed =
                                  IF result.success \/ @ # "none" THEN @ ELSE s]
       IN IF b = "next"
          THEN /\ runs' = [r1 EXCEPT ![i].pc = NextExecuteStage(s)]
               /\ returned' = NoReturn
               /\ UNCHANGED <<current_execution, terraform_queue>>
          ELSE ExecuteFinally(i, [r1 EXCEPT ![i].response = b], fs_ok)

NextExecute ==
    \/ \E v \in FormValues :
           SubmitExecute(v) /\ UNCHANGED <<upload, main_tf>>
    \/ \E i \in DOMAIN runs :
           StartDrained(i) /\ UNCHANGED <<upload, main_tf>>
    \/ \E i \in DOMAIN runs, o \in CreateOutcomes, fs_ok \in BOOLEAN :
           ExecuteCreate(i, o, fs_ok) /\ UNCHANGED <<upload, main_tf>>
    \/ \E i \in DOMAIN runs, o \in CommandOutcomes, fs_ok \in BOOLEAN :
           ExecuteStage(i, o, fs_ok) /\ UNCHANGED <<upload, main_tf>>

(***************************************************************************)
(* /validate                                                               *)
(***************************************************************************)

\* Mutant: the plan branch carries the tag pasted from the apply branch.
ValidateTag_pasted(s) ==
    CASE s = "init" -> "initialization_error"
      [] s = "validate" -> "validation_error"
      [] s = "plan" -> "apply_error"
      [] s = "apply" -> "apply_error"
      [] s = "destroy" -> "destroy_error"

\* details.type of the failure branch that follows each stage's command.
ValidateTag(s) ==
    CASE s = "init" -> "initialization_error"
      [] s = "validate" -> "validation_error"
      [] s = "plan" -> "plan_error"
      [] s = "apply" -> "apply_error"
      [] s = "destroy" -> "destroy_error"

\* The stage whose command follows stage s when s succeeds.
NextValidateStage(s) ==
    CASE s = "init" -> "validate"
      [] s = "validate" -> "plan"
      [] s = "plan" -> "apply"
      [] s = "apply" -> "destroy"

\* Mutant: the init branch returns without the rollback destroy.
RollsBack_not_after_init(s) == s \notin {"destroy", "init"}

\* After a failed stage s the failure branch awaits a rollback destroy before
\* it returns, except in the branch of the destroy stage itself.
RollsBack(s) == s # "destroy"

\* Mutant: cleanup_workspace is called at the end of the try, not in a finally
\* block, so only the success path reaches it.
ValidateFinally_success_only(i, rs, fs_ok) ==
    LET c == cleanup_workspace(rs[i].dir, fs_ok)
        r1 == IF rs[i].response = "success"
              THEN [rs EXCEPT ![i].dir = c.dir, ![i].teardown = c.teardown,
                              ![i].commands = Append(@, "cleanup_workspace")]
              ELSE rs
    IN /\ returned' = Returns(i, r1)
       /\ runs' = [r1 EXCEPT ![i] = Summary(@, "ran")]
       /\ UNCHANGED <<current_execution, terraform_queue>>

\* The finally block of validate_terraform: cleanup_workspace; after it the
\* invocation ends with the response of rs[i].
ValidateFinally(i, rs, fs_ok) ==
    LET c == cleanup_workspace(rs[i].dir, fs_ok)
        r1 == [rs EXCEPT ![i].dir = c.dir, ![i].teardown = c.teardown,
                         ![i].commands = Append(@, "cleanup_workspace")]
    IN /\ returned' = Returns(i, r1)
       /\ runs' = [r1 EXCEPT ![i] = Summary(@, "ran")]
       /\ UNCHANGED <<current_execution, terraform_queue>>

\* Mutant: the workspace is created before the variables are parsed.
SubmitValidate_parses_late(v) ==
    /\ WithinBounds("validate", "execute", MaxValidate)
    /\ LET i == Len(runs) + 1
           r == NewRun("validate", "http", i, "dropped", "create")
       IN runs' = Append(runs,
                     IF ParseVariables(v) = "JSONDecodeError"
                     THEN [r EXCEPT !.pc = "rollback", !.response = "http400",
                                    !.variables = v, !.dir = TRUE,
                                    !.commands = <<"makedirs">>]
                     ELSE r)
    /\ returned' = NoReturn
    /\ UNCHANGED <<current_execution, terraform_queue>>

\* POST /validate arrives with form field `variables` = v.  Malformed text
\* raises JSONDecodeError at the first line of the try: the handler of that
\* exception awaits a destroy command and then raises HTTPException(400).
SubmitValidate(v) ==
    /\ WithinBounds("validate", "execute", MaxValidate)
    /\ LET i == Len(runs) + 1
           r == NewRun("validate", "http", i, "dropped", "create")
       IN runs' = Append(runs,
                     IF ParseVariables(v) = "JSONDecodeError"
                     THEN [r EXCEPT !.pc = "rollback", !.response = "http400",
                                    !.variables = v]
                     ELSE r)
    /\ returned' = NoReturn
    /\ UNCHANGED <<current_execution, terraform_queue>>

\* create_terraform_workspace inside the try of validate_terraform; a fault is
\* caught by `except Exception`, which awaits a destroy command.
ValidateCreate(i, o) ==
    /\ runs[i].endpoint = "validate"
    /\ runs[i].pc = "create"
    /\ runs' = IF o = "ok"
               THEN [runs EXCEPT ![i].dir = TRUE, ![i].pc = "init",
                                 ![i].commands = Append(@, "makedirs")]
               ELSE [runs EXCEPT ![i].dir = (o = "write_fault"),
                                 ![i].commands =
                                     IF o = "write_fault" THEN Append(@, "makedirs") ELSE @,
                                 ![i].pc = "rollback",
                                 ![i].response = "unexpected_error"]
    /\ returned' = NoReturn
    /\ UNCHANGED <<current_execution, terraform_queue>>

\* One stage command of the /validate pipeline completes with outcome o.
ValidateStage(i, o, fs_ok) ==
    /\ runs[i].endpoint = "validate"
    /\ runs[i].pc \in TerraformCommands
    /\ LET s == runs[i].pc
           result == execute_terraform_command(o)
           r1 == [runs EXCEPT ![i].commands = Append(@, s)]
       IN IF ~result.success
          THEN LET r2 == [r1 EXCEPT ![i].first_failed = s,
                                    ![i].response = ValidateTag(s)]
               IN IF RollsBack(s)
                  THEN /\ runs' = [r2 EXCEPT ![i].pc = "rollback"]
                       /\ returned' = NoReturn
                       /\ UNCHANGED <<current_execution, terraform_queue>>
                  ELSE ValidateFinally(i, r2, fs_ok)
          ELSE IF s # "destroy"
          THEN /\ runs' = [r1 EXCEPT ![i].pc = NextValidateStage(s),
                                     ![i].validate_output =
                                         IF s = "validate" THEN result.output ELSE @]
               /\ returned' = NoReturn
               /\ UNCHANGED <<current_execution, terraform_queue>>
          ELSE \* the success dictionary evaluates json.loads(validate_result["output"])
               IF runs[i].validate_output = "json"
               THEN ValidateFinally(i, [r1 EXCEPT ![i].response = "success"], fs_ok)
               ELSE \* JSONDecodeError, caught by the handler meant for the variables
                    /\ runs' = [r1 EXCEPT ![i].pc = "rollback",
                                          ![i].response = "http400"]
                    /\ returned' = NoReturn
                    /\ UNCHANGED <<current_execution, terraform_queue>>

\* The destroy command awaited by a failure branch or an except handler
\* completes; the handler returns (or raises) and the finally block runs.
ValidateRollback(i, o, fs_ok) ==
    /\ runs[i].endpoint = "validate"
    /\ runs[i].pc = "rollback"
    /\ o \in CommandOutcomesIn(runs[i].dir)
    /\ ValidateFinally(i,
           [runs EXCEPT ![i].commands = Append(@, "destroy"),
                        ![i].rollback =
                            IF execute_terraform_command(o).success
                            THEN "succeeded" ELSE "failed"],
           fs_ok)

NextValidate ==
    \/ \E v \in FormValues :
           SubmitValidate(v) /\ UNCHANGED <<upload, main_tf>>
    \/ \E i \in DOMAIN runs, o \in CreateOutcomes :
           ValidateCreate(i, o) /\ UNCHANGED <<upload, main_tf>>
    \/ \E i \in DOMAIN runs, o \in CommandOutcomes, fs_ok \in BOOLEAN :
           ValidateStage(i, o, fs_ok) /\ UNCHANGED <<upload, main_tf>>
    \/ \E i \in DOMAIN runs, o \in CommandOutcomes, fs_ok \in BOOLEAN :
           ValidateRollback(i, o, fs_ok) /\ UNCHANGED <<upload, main_tf>>

\* Both endpoints, served by the same event loop.
Next == NextExecute \/ NextValidate

Spec == Init /\ [][Next]_vars

(***************************************************************************)
(* create_terraform_workspace: injection of credentials into main.tf       *)
(*                                                                         *)
(* The configuration text is the sequence of its lexemes, in the layout    *)
(* of `terraform fmt`: one space between the words of a block header, `{`  *)
(* on the header's line, `{}` for an empty block, one field per line and   *)
(* every other closing brace on a line of its own.  In this layout the     *)
(* substring tests, str.replace and the regular expression of the code     *)
(* see exactly the lexemes.  A lexeme records whose string it came from    *)
(* (the upload or a provider_block built by the code) and whether the      *)
(* line it is on starts with `#`.  A field's value is not kept apart from  *)
(* who wrote it: "caller" values are the upload's, "engine" values are the *)
(* supplied credentials.                                                   *)
(***************************************************************************)

Token(kind, name, by, commented) ==
    [kind |-> kind, name |-> name, by |-> by, commented |-> commented]

\* provider "p"
Header(p, by, c) == Token("provider", p, by, c)
Open(by, c) == Token("open", "{", by, c)
Close(by, c) == Token("close", "}", by, c)
\* name = value
Field(name, by, c) == Token("field", name, by, c)
\* the label of a nested block
SubHeader(name, by, c) == Token("sub", name, by, c)

Providers == {"aws", "google", "azurerm"}

\* The credential keys the code pops from `variables`, in the order of its
\* if-statements, with the provider field each one is written to.
AwsKeys ==
    << [key |-> "aws_access_key", field |-> "access_key"],
       [key |-> "aws_secret_key", field |-> "secret_key"],
       [key |-> "aws_region", field |-> "region"] >>
GcpKeys ==
    << [key |-> "gcp_credentials_file", field |-> "credentials"] >>
AzureKeys ==
    << [key |-> "azure_client_id", field |-> "client_id"],
       [key |-> "azure_client_secret", field |-> "client_secret"],
       [key |-> "azure_subscription_id", field |-> "subscription_id"],
       [key |-> "azure_tenant_id", field |-> "tenant_id"] >>

KeysOf(p) ==
    IF p = "aws" THEN AwsKeys ELSE IF p = "google" THEN GcpKeys ELSE AzureKeys

KeyNames(p) == {KeysOf(p)[k].key : k \in DOMAIN KeysOf(p)}
CredentialKeys == UNION {KeyNames(p) : p \in Providers}

\* aws_credentials, gcp_credentials, azure_credentials: the keys of
\* `variables` that belong to provider p.
Credentials(p, variables) == KeyNames(p) \cap variables

\* The lines `  field = "value"` that the code adds to a provider_block: one
\* per supplied key, in the code's order, skipping the fields in existing_values.
CredentialLines(p, credentials, existing_values) ==
    LET chosen == SelectSeq(KeysOf(p),
                      LAMBDA e : e.key \in credentials /\ e.field \notin existing_values)
    IN [k \in 1 .. Len(chosen) |-> Field(chosen[k].field, "engine", FALSE)]

\* The provider_block built when nothing of an existing block is kept
\* (l.102-109 for aws, l.114-117 for google, l.127-137 for azurerm).
NewBlock(p, credentials) ==
    <<Header(p, "engine", FALSE), Open("engine", FALSE)>>
        \o (IF p = "azurerm"
            THEN <<SubHeader("features", "engine", FALSE),
                   Open("engine", FALSE), Close("engine", FALSE)>>
            ELSE <<>>)
        \o CredentialLines(p, credentials, {})
        \o <<Close("engine", FALSE)>>

IsHeader(t, p) == t.kind = "provider" /\ t.name = p

\* A provider_block put where a header stood: its first line continues the
\* line of that header, so it is a comment exactly when that line was one;
\* its other lines are new lines.
InPlace(provider_block, c) ==
    [k \in 1 .. Len(provider_block) |->
        IF k <= 2 THEN [provider_block[k] EXCEPT !.commented = c]
        ELSE provider_block[k]]

\* The index of the first `}` at or after `from`, 0 when there is none.
FirstClose(text, from) ==
    LET S == {j \in from .. Len(text) : text[j].kind = "close"}
    IN IF S = {} THEN 0 ELSE CHOOSE j \in S : \A m \in S : j <= m

\* provider\s+"aws"\s+{[^}]*} matched at index k: the index of the `}` that
\* ends the match (the first one after the `{`), 0 when there is no match.
MatchAt(text, k) ==
    IF k + 1 <= Len(text) /\ IsHeader(text[k], "aws") /\ text[k + 1].kind = "open"
    THEN FirstClose(text, k + 2)
    ELSE 0

\* re.search: the index of the leftmost match, 0 when there is none.
re_search(text) ==
    LET S == {k \in 1 .. Len(text) : MatchAt(text, k) # 0}
    IN IF S = {} THEN 0 ELSE CHOOSE k \in S : \A m \in S : k <= m

\* re.sub: every match, left to right, is replaced by the same provider_block.
RECURSIVE re_sub(_, _)
re_sub(text, provider_block) ==
    IF text = <<>> THEN <<>>
    ELSE IF MatchAt(text, 1) # 0
    THEN InPlace(provider_block, text[1].commented)
             \o re_sub(SubSeq(text, MatchAt(text, 1) + 1, Len(text)), provider_block)
    ELSE <<Head(text)>> \o re_sub(Tail(text), provider_block)

\* l.67-110.  existing_config is group 1 of the first match; a line of it
\* counts as an existing value under the text before its `=`, which for a
\* commented line starts with `#` and so is never a credential field.
InjectAws(text, aws_credentials) ==
    IF re_search(text) # 0
    THEN LET h == re_search(text)
             existing_config == SubSeq(text, h + 2, MatchAt(text, h) - 1)
             existing_values ==
                 {existing_config[k].name :
                     k \in {j \in DOMAIN existing_config :
                               /\ existing_config[j].kind = "field"
                               /\ ~existing_config[j].commented}}
             provider_block ==
                 <<Header("aws", "engine", FALSE), Open("engine", FALSE)>>
                     \o CredentialLines("aws", aws_credentials, existing_values)
                     \o existing_config
                     \o <<Close("engine", FALSE)>>
         IN re_sub(text, provider_block)
    ELSE NewBlock("aws", aws_credentials) \o text

\* str.replace of 'provider "p" {}' (n = 3) or of 'provider "p" {' (n = 2)
\* by provider_block: every occurrence, left to right, without rescanning
\* the text it has put in.
RECURSIVE str_replace(_, _, _, _)
str_replace(text, p, n, provider_block) ==
    IF text = <<>> THEN <<>>
    ELSE IF /\ Len(text) >= n
            /\ IsHeader(text[1], p)
            /\ text[2].kind = "open"
            /\ (n = 3 => text[3].kind = "close")
    THEN InPlace(provider_block, text[1].commented)
             \o str_replace(SubSeq(text, n + 1, Len(text)), p, n, provider_block)
    ELSE <<Head(text)>> \o str_replace(Tail(text), p, n, provider_block)

\* l.113-123 for google, l.126-143 for azurerm.
InjectBlock(text, p, credentials) ==
    LET provider_block == NewBlock(p, credentials) IN
    IF \E k \in DOMAIN text : IsHeader(text[k], p)
    THEN str_replace(str_replace(text, p, 3, provider_block), p, 2, provider_block)
    ELSE text \o provider_block

\* The text that create_terraform_workspace writes to main.tf.
create_terraform_workspace(file_content_str, variables) ==
    LET aws == IF Credentials("aws", variables) # {}
               THEN InjectAws(file_content_str, Credentials("aws", variables))
               ELSE file_content_str
        gcp == IF Credentials("google", variables) # {}
               THEN InjectBlock(aws, "google", Credentials("google", variables))
               ELSE aws
    IN IF Credentials("azurerm", variables) # {}
       THEN InjectBlock(gcp, "azurerm", Credentials("azurerm", variables))
       ELSE gcp

\* The blocks an upload is made of.  For provider p: an empty block, a block
\* that sets one of the fields a credential of p is written to, a block with
\* an empty nested block before that field, and the second block commented
\* out line by line.
DeclaredField(p) ==
    IF p = "aws" THEN "region" ELSE IF p = "google" THEN "credentials" ELSE "subscription_id"
SubName(p) ==
    IF p = "aws" THEN "assume_role" ELSE IF p = "google" THEN "batching" ELSE "features"
EmptyBlock(p) ==
    <<Header(p, "caller", FALSE), Open("caller", FALSE), Close("caller", FALSE)>>
PlainBlock(p, c) ==
    <<Header(p, "caller", c), Open("caller", c),
      Field(DeclaredField(p), "caller", c), Close("caller", c)>>
NestedBlock(p) ==
    <<Header(p, "caller", FALSE), Open("caller", FALSE),
      SubHeader(SubName(p), "caller", FALSE),
      Open("caller", FALSE), Close("caller", FALSE),
      Field(DeclaredField(p), "caller", FALSE), Close("caller", FALSE)>>
ResourceBlock ==
    <<Token("resource", "instance", "caller", FALSE), Open("caller", FALSE),
      Field("ami", "caller", FALSE), Close("caller", FALSE)>>

Templates ==
    {ResourceBlock} \cup
    UNION {{EmptyBlock(p), PlainBlock(p, FALSE), NestedBlock(p), PlainBlock(p, TRUE)} :
              p \in Providers}

RECURSIVE Concat(_)
Concat(blocks) ==
    IF blocks = <<>> THEN <<>> ELSE Head(blocks) \o Concat(Tail(blocks))

\* The uploaded configurations: up to MaxBlocks blocks.
Configs ==
    {Concat(blocks) : blocks \in UNION {[1 .. n -> Templates] : n \in 0 .. MaxBlocks}}

InitInject ==
    /\ current_execution = NoExecution
    /\ terraform_queue = <<>>
    /\ runs = <<>>
    /\ returned = NoReturn
    /\ upload \in [terraform_file : Configs, variables : SUBSET CredentialKeys]
    /\ main_tf = NotWritten

\* One call of create_terraform_workspace: main.tf is written.
WriteMainTf ==
    /\ ~main_tf.written
    /\ main_tf' = [written |-> TRUE,
                   text |-> create_terraform_workspace(upload.terraform_file,
                                                       upload.variables)]
    /\ UNCHANGED <<current_execution, terraform_queue, runs, returned, upload>>

NextInject == WriteMainTf

SpecInject == InitInject /\ [][NextInject]_vars

(***************************************************************************)
(* Properties                                                              *)
(***************************************************************************)

Range(q) == {q[k] : k \in DOMAIN q}
Count(q, x) == Cardinality({k \in DOMAIN q : q[k] = x})

ExecuteRuns == {i \in DOMAIN runs : runs[i].endpoint = "execute"}
ValidateRuns == {i \in DOMAIN runs : runs[i].endpoint = "validate"}

\* The pipeline has been entered and the finally block has not run yet.
ExecutePipelinePcs == {"create", "init", "plan", "apply"}

\* An /execute invocation is between taking the slot and releasing it.
HoldsSlot(i) == i \in ExecuteRuns /\ runs[i].pc \in ExecutePipelinePcs

\* A stage command of the invocation is in flight.
InStage(i) == runs[i].pc \in TerraformCommands

\* C1: at most one /execute run holds the slot: an /execute invocation that
\* is between setting the marker and releasing it is the one the marker
\* names, so while it is there no other /execute invocation is in a stage.
C1_SingleExecuteHolder ==
    /\ \A i \in ExecuteRuns : HoldsSlot(i) => current_execution = i
    /\ \A i, j \in ExecuteRuns : HoldsSlot(i) /\ HoldsSlot(j) => i = j

\* C1 witness: a drained run is in its plan stage while a request waits.
C1_Witness ==
    \E i \in ExecuteRuns :
        /\ runs[i].via = "drained"
        /\ runs[i].pc = "plan"
        /\ terraform_queue # <<>>

\* C2: no /validate run is in a stage command while another run, of either
\* endpoint, is between its first stage command and its teardown.
C2_OneProvisioningRun ==
    \A i \in ValidateRuns : \A j \in DOMAIN runs :
        InStage(i) /\ InStage(j) => i = j

\* The request that arrived as submission a is still waiting for the slot: it
\* is in the queue, or popped for a task that has not started.
Waiting(a) ==
    \/ \E k \in DOMAIN terraform_queue : terraform_queue[k].terraform_file = a
    \/ \E i \in ExecuteRuns : runs[i].origin = a /\ runs[i].pc = "scheduled"

\* The request that arrived as submission b has been granted the slot.
Granted(b) ==
    \E i \in ExecuteRuns :
        runs[i].origin = b /\ (HoldsSlot(i) \/ runs[i].response = "ran")

\* C3: strict arrival order: no request submitted later than a request that
\* is still waiting has been granted the slot.
C3_ArrivalOrder ==
    \A a, b \in DOMAIN runs : a < b /\ Waiting(a) => ~Granted(b)

\* Nothing is running or scheduled: without a new submission nothing happens.
Idle == \A i \in DOMAIN runs : runs[i].pc = "done"

\* C4: every request answered "queued" comes to run its pipeline and the drain
\* chain empties the queue with no new submission: once nothing is running or
\* scheduled, the queue is empty and every queued request has run.
C4_QueuedRequestsRun ==
    Idle =>
        /\ terraform_queue = <<>>
        /\ \A i \in ExecuteRuns :
               runs[i].response = "queued" => Granted(runs[i].origin)

\* The /execute invocation that has just ended had been granted the slot.
ReturnedHeldSlot == "acquire" \in Range(returned.commands)

C5_Returned ==
    returned.id # 0 /\ returned.endpoint = "execute" =>
        IF ReturnedHeldSlot
        THEN /\ Count(returned.commands, "cleanup_workspace") = 1
             /\ Count(returned.commands, "release") = 1
             /\ SubSeq(returned.commands, Len(returned.commands) - 1,
                       Len(returned.commands)) = <<"cleanup_workspace", "release">>
             /\ current_execution # returned.id
        ELSE /\ "release" \notin Range(returned.commands)
             /\ returned.response \in {"queued", "http400", "unhandled_TypeError"}

C5_Step ==
    (returned'.id # 0 /\ returned'.endpoint = "execute"
        /\ "acquire" \notin Range(returned'.commands))
    => current_execution' = current_execution

\* C5: an /execute run that was granted the slot ends, on every exit path,
\* with exactly one workspace teardown followed by exactly one release, after
\* which it no longer holds the marker; an invocation that ends queued or
\* rejected has released nothing and leaves the marker as it was.
C5_TeardownThenRelease == []C5_Returned /\ [][C5_Step]_vars

\* C5 witness: a run that held the slot ends with an uncaught fault, having
\* torn down and released.
C5_Witness ==
    /\ returned.id # 0
    /\ returned.endpoint = "execute"
    /\ returned.response = "unhandled_fault"
    /\ "apply" \in Range(returned.commands)
    /\ "release" \in Range(returned.commands)

\* C6 as stated: after a run that created its workspace returns, the
\* directory no longer exists.
C6_WorkspaceGone ==
    returned.id # 0 /\ "makedirs" \in Range(returned.commands) => ~returned.dir

\* The commands of a record without the release of the slot.
BeforeRelease(cmds) == SelectSeq(cmds, LAMBDA c : c # "release")

\* C6 amended: after a run that created its workspace returns, on every
\* control path, cleanup_workspace has been called exactly once, after every
\* other operation on the workspace, and the directory no longer exists unless
\* the removal itself raised (the exception is swallowed).
C6_TeardownAttempted ==
    returned.id # 0 /\ "makedirs" \in Range(returned.commands) =>
        /\ Count(returned.commands, "cleanup_workspace") = 1
        /\ BeforeRelease(returned.commands)[Len(BeforeRelease(returned.commands))]
               = "cleanup_workspace"
        /\ returned.teardown \in {"removed", "swallowed"}
        /\ returned.dir <=> returned.teardown = "swallowed"

\* C6 witness: a /validate run ends through `except Exception` with its
\* directory removed.
C6_Witness ==
    /\ returned.id # 0
    /\ returned.endpoint = "validate"
    /\ returned.response = "unexpected_error"
    /\ "makedirs" \in Range(returned.commands)
    /\ ~returned.dir

\* This step is an HTTP submission to /execute.
IsExecuteSubmission ==
    /\ Len(runs') = Len(runs) + 1
    /\ runs'[Len(runs')].endpoint = "execute"
    /\ runs'[Len(runs')].via = "http"

C7_Step ==
    (IsExecuteSubmission /\ current_execution # NoExecution
        /\ returned'.response # "http400")
    => /\ returned'.id = Len(runs')
       /\ returned'.response = "queued"
       /\ returned'.position = Len(terraform_queue) + 1
       /\ returned'.position = Len(terraform_queue')
       /\ SubSeq(terraform_queue', 1, Len(terraform_queue)) = terraform_queue
       /\ terraform_queue'[Len(terraform_queue')].execution_id = returned'.id
       /\ returned'.commands = <<>>
       /\ current_execution' = current_execution

\* C7: a submission to /execute (with a parsable payload) that finds the slot
\* occupied and k-1 requests waiting is appended to the tail of the queue and
\* answered "queued" with position k, the length of the queue after the
\* append, without any command run and without touching the marker.
C7_QueuedPosition == [][C7_Step]_vars

\* C7 witness: a submission was answered "queued" at position 2.
C7_Witness ==
    /\ returned.id # 0
    /\ returned.via = "http"
    /\ returned.response = "queued"
    /\ returned.position = 2
    /\ Len(terraform_queue) = 2

\* The terraform commands among the operations of a record, in order.
StageCommands(cmds) == SelectSeq(cmds, LAMBDA c : c \in TerraformCommands)

\* The normal sequence of /validate up to and including stage s.
UpTo(s) ==
    SubSeq(ValidateStages, 1,
           CHOOSE k \in DOMAIN ValidateStages : ValidateStages[k] = s)

\* The tag the interface gives each stage.
StageTag ==
    [init |-> "initialization_error", validate |-> "validation_error",
     plan |-> "plan_error", apply |-> "apply_error", destroy |-> "destroy_error"]

\* A /validate run has just ended and a stage of it had failed.
ReturnedFailedStage ==
    /\ returned.id # 0
    /\ returned.endpoint = "validate"
    /\ returned.first_failed # "none"

\* C8: in a /validate run whose first failing stage is S, the commands run
\* are the stages up to S and nothing after S but the rollback destroy, and
\* the response carries the tag of S.
C8_FailureHaltsAndTags ==
    ReturnedFailedStage =>
        /\ returned.response = StageTag[returned.first_failed]
        /\ StageCommands(returned.commands) =
               UpTo(returned.first_failed)
                   \o (IF returned.rollback = "none" THEN <<>> ELSE <<"destroy">>)
        /\ returned.first_failed = "destroy" => returned.rollback = "none"

\* C8 witness: a run whose plan failed ends tagged plan_error.
C8_Witness ==
    /\ ReturnedFailedStage
    /\ returned.first_failed = "plan"
    /\ returned.response = "plan_error"

\* C9: when a stage from init through apply fails, destroy is run exactly
\* once, right after the failing stage and before the teardown, and the tag
\* reported does not depend on how that destroy ends; when the destroy stage
\* fails nothing follows it but the teardown.
C9_RollbackDestroy ==
    ReturnedFailedStage =>
        LET s == returned.first_failed
            cmds == returned.commands
            n == Len(cmds)
        IN IF s # "destroy"
           THEN /\ Count(cmds, "destroy") = 1
                /\ SubSeq(cmds, n - 2, n) = <<s, "destroy", "cleanup_workspace">>
                /\ returned.rollback \in {"succeeded", "failed"}
                /\ returned.response = StageTag[s]
           ELSE /\ Count(cmds, "destroy") = 1
                /\ SubSeq(cmds, n - 1, n) = <<"destroy", "cleanup_workspace">>
                /\ returned.rollback = "none"

\* C9 witness: apply failed, the rollback destroy failed too, and the run is
\* tagged apply_error.
C9_Witness ==
    /\ ReturnedFailedStage
    /\ returned.first_failed = "apply"
    /\ returned.rollback = "failed"
    /\ returned.response = "apply_error"

\* C10: a /validate run whose five stage commands all exit with code zero
\* has run the five stages once each, in order, and answers success.
C10_AllStagesPassSucceeds ==
    (/\ returned.id # 0
     /\ returned.endpoint = "validate"
     /\ returned.first_failed = "none"
     /\ Len(StageCommands(returned.commands)) >= Len(ValidateStages)
     /\ SubSeq(StageCommands(returned.commands), 1, Len(ValidateStages))
            = ValidateStages)
    => /\ StageCommands(returned.commands) = ValidateStages
       /\ returned.response = "success"

\* An /execute invocation that held the slot has just ended.
ReturnedExecuteRun ==
    /\ returned.id # 0
    /\ returned.endpoint = "execute"
    /\ ReturnedHeldSlot

\* q is a prefix of r.
IsPrefix(q, r) == Len(q) <= Len(r) /\ SubSeq(r, 1, Len(q)) = q

\* C11: an /execute run that held the slot, started directly or drained, has
\* run only init, plan and apply, in that order, nothing after its first
\* failing stage, and neither validate nor destroy.
C11_ExecuteStagesOnly ==
    ReturnedExecuteRun =>
        LET cmds == StageCommands(returned.commands) IN
        /\ IsPrefix(cmds, ExecuteStages)
        /\ returned.first_failed # "none" =>
               cmds # <<>> /\ cmds[Len(cmds)] = returned.first_failed
        /\ (returned.first_failed = "none" /\ returned.response # "unhandled_fault")
               => cmds = ExecuteStages

\* C11 witness: a drained run stopped at its failing plan.
C11_Witness ==
    /\ ReturnedExecuteRun
    /\ returned.via = "drained"
    /\ returned.first_failed = "plan"
    /\ StageCommands(returned.commands) = <<"init", "plan">>

\* The payload of the invocation that has just ended was not valid JSON.
ReturnedMalformed == returned.id # 0 /\ returned.variables = "str_malformed"

\* A submission with a malformed payload has just arrived and is not yet answered.
MalformedArrives ==
    /\ Len(runs') = Len(runs) + 1
    /\ runs'[Len(runs')].variables = "str_malformed"

C12_State ==
    /\ ReturnedMalformed =>
           /\ returned.via = "http"
           /\ returned.response = "http400"
           /\ "makedirs" \notin Range(returned.commands)
           /\ "acquire" \notin Range(returned.commands)
           /\ ~returned.dir
    /\ \A i \in DOMAIN runs :
           runs[i].variables = "str_malformed" =>
               ~runs[i].dir /\ "makedirs" \notin Range(runs[i].commands)

C12_Step ==
    (MalformedArrives \/ returned'.variables = "str_malformed")
        => UNCHANGED <<current_execution, terraform_queue>>

\* C12: a submission to /validate or /execute whose variables are not valid
\* JSON is answered with HTTP 400, no workspace directory is ever created for
\* it, and neither its arrival nor its rejection changes the current marker
\* or the queue.
C12_MalformedRejected == []C12_State /\ [][C12_Step]_vars

\* C12 witness: a malformed /validate submission has been rejected while an
\* /execute run holds the slot.
C12_Witness ==
    /\ ReturnedMalformed
    /\ returned.endpoint = "validate"
    /\ returned.response = "http400"
    /\ current_execution # NoExecution

\* GET /queue-status: reads the marker and the length of the queue.
get_queue_status ==
    [current_execution |-> current_execution,
     queue_length |-> Len(terraform_queue)]

\* The last component of workspace_dir of invocation i: the uuid4 that this
\* invocation drew, whatever identifier the queue entry carried.
workspace_dir(i) == i

\* C13: while a request drained from the queue runs, /queue-status reports
\* as current_execution, and the workspace directory is named by, the
\* execution_id that the "queued" response gave to the caller.
C13_QueuedIdKept ==
    \A i \in DOMAIN runs :
        (HoldsSlot(i) /\ runs[i].via = "drained") =>
            /\ get_queue_status.current_execution = runs[i].origin
            /\ workspace_dir(i) = runs[i].origin

\* What terraform reads of a text: the lexemes outside comments.
Live(text) == SelectSeq(text, LAMBDA t : ~t.commented)

\* The number of blocks open after lexeme k of t.
Depth(t, k) ==
    Cardinality({j \in 1 .. k : t[j].kind = "open"})
        - Cardinality({j \in 1 .. k : t[j].kind = "close"})

Balanced(t) ==
    /\ \A k \in 1 .. Len(t) : Depth(t, k) >= 0
    /\ Depth(t, Len(t)) = 0

\* The declarations of provider p in t, and the n-th of them.
Declarations(t, p) == {k \in 1 .. Len(t) : IsHeader(t[k], p)}
Nth(S, n) == CHOOSE k \in S : Cardinality({m \in S : m < k}) = n - 1

\* The `}` that closes the block whose header is lexeme h of t, 0 when the
\* block is never closed.
BlockEnd(t, h) ==
    LET S == {j \in h + 1 .. Len(t) :
                 t[j].kind = "close" /\ Depth(t, j) = Depth(t, h)}
    IN IF S = {} THEN 0 ELSE CHOOSE j \in S : \A m \in S : j <= m

\* What is between the braces of that block.
Body(t, h) ==
    SubSeq(t, h + 2, IF BlockEnd(t, h) = 0 THEN Len(t) ELSE BlockEnd(t, h) - 1)

\* The fields of that block itself, not of its nested blocks.
DirectFields(t, h) ==
    {k \in h + 2 .. h + 1 + Len(Body(t, h)) :
        t[k].kind = "field" /\ Depth(t, k) = Depth(t, h) + 1}

\* The upload and the rendered file as terraform reads them.
In == Live(upload.terraform_file)
Out == Live(main_tf.text)

NoComments == \A k \in DOMAIN upload.terraform_file : ~upload.terraform_file[k].commented
Supplied(p) == Credentials(p, upload.variables) # {}
SuppliedFields(p) ==
    {KeysOf(p)[k].field : k \in {j \in DOMAIN KeysOf(p) : KeysOf(p)[j].key \in upload.variables}}
Declared(p) == Declarations(In, p) # {}

\* C14: when the upload declares a block for a provider whose credentials
\* are supplied, main.tf has as many declarations of that provider as the
\* upload, and in each of them every field the caller set is there exactly
\* once, with the caller's value.
C14_ExistingBlockMerged ==
    (main_tf.written /\ NoComments) =>
        \A p \in Providers :
            (Supplied(p) /\ Declared(p)) =>
                /\ Cardinality(Declarations(Out, p)) = Cardinality(Declarations(In, p))
                /\ \A n \in 1 .. Cardinality(Declarations(In, p)) :
                       LET hi == Nth(Declarations(In, p), n)
                           ho == Nth(Declarations(Out, p), n)
                       IN \A f \in DirectFields(In, hi) :
                              LET same == {k \in DirectFields(Out, ho) :
                                              Out[k].name = In[f].name}
                              IN /\ Cardinality(same) = 1
                                 /\ \A k \in same : Out[k].by = "caller"

\* C15: when the upload has no declaration of a provider whose credentials
\* are supplied, main.tf has exactly one block for it, holding one field per
\* supplied credential (after `features {}` for azurerm) and nothing else.
C15_NoPriorDeclaration ==
    main_tf.written =>
        \A p \in Providers :
            (Supplied(p) /\ ~Declared(p)) =>
                /\ Cardinality(Declarations(Out, p)) = 1
                /\ LET h == Nth(Declarations(Out, p), 1)
                       body == Body(Out, h)
                       fields == SelectSeq(body, LAMBDA t : t.kind = "field")
                       others == SelectSeq(body, LAMBDA t : t.kind # "field")
                   IN /\ BlockEnd(Out, h) # 0
                      /\ Len(fields) = Cardinality(SuppliedFields(p))
                      /\ {fields[k].name : k \in DOMAIN fields} = SuppliedFields(p)
                      /\ \A k \in DOMAIN fields : fields[k].by = "engine"
                      /\ [k \in DOMAIN others |-> <<others[k].kind, others[k].name>>]
                             = IF p = "azurerm"
                               THEN << <<"sub", "features">>, <<"open", "{">>,
                                       <<"close", "}">> >>
                               ELSE <<>>

\* C16: a provider block made because the upload had none for that provider
\* stands before every lexeme of the upload in main.tf.
C16_SynthesizedFirst ==
    (main_tf.written /\ NoComments) =>
        \A p \in Providers :
            (Supplied(p) /\ ~Declared(p)) =>
                \A h \in Declarations(Out, p), k \in DOMAIN Out :
                    Out[k].by = "caller" => h < k

\* The caller's fields and nested blocks in a sequence of lexemes.
CallerContent(body) ==
    LET kept == SelectSeq(body, LAMBDA t : t.kind \in {"field", "sub"} /\ t.by = "caller")
    IN [k \in DOMAIN kept |-> <<kept[k].kind, kept[k].name>>]

\* C20: for a brace-balanced upload that declares a block for a provider
\* whose credentials are supplied, main.tf is brace-balanced and each block
\* of that provider still holds the caller's fields and nested blocks.
C20_MatchingBrace ==
    (main_tf.written /\ NoComments /\ Balanced(In)) =>
        \A p \in Providers :
            (Supplied(p) /\ Declared(p)) =>
                /\ Balanced(Out)
                /\ \A n \in 1 .. Cardinality(Declarations(In, p)) :
                       /\ n <= Cardinality(Declarations(Out, p))
                       /\ CallerContent(Body(Out, Nth(Declarations(Out, p), n)))
                              = CallerContent(Body(In, Nth(Declarations(In, p), n)))

\* The head of the queue has been popped and its task has not started yet.
PoppedNotStarted(i) == i \in ExecuteRuns /\ runs[i].pc = "scheduled"

\* C17: the entry that release pops becomes the current run in the same
\* critical section: the slot is never free while a popped entry has not
\* started.
C17_PopTakesSlot ==
    \A i \in DOMAIN runs : PoppedNotStarted(i) => current_execution # NoExecution

\* C18: whenever a request waits in the queue, some run holds the slot.
C18_WaitingImpliesBusy ==
    terraform_queue # <<>> => current_execution # NoExecution

\* C19: an /execute run whose init, plan or apply failed, by a non-zero exit
\* or by a failure to launch, answers with success=false and the error text.
C19_FailureIsAResponse ==
    (ReturnedExecuteRun /\ returned.first_failed # "none") =>
        returned.response = "success_false"

====
